---- MODULE Spec2Model ----
(***************************************************************************)
(* Model of the support-case fetchers of support-case-pull:                *)
(*   fetch_cases.py         fixed nine columns, identifiers from a text    *)
(*                          file                                           *)
(*   fetch_cases_config.py  columns and identifiers from a JSON config     *)
(* Both scripts share fetch_case, extract_jira_links and the batch loop of *)
(* main; they differ in how the input is read and how a row is extracted.  *)
(***************************************************************************)
EXTENDS Integers, Sequences, FiniteSets, TLC

VARIABLES
    script,          \* which script runs: "fixed" (fetch_cases.py) or "config"
    pc,              \* position of the running code
    BEARER_TOKEN,    \* credentials.BEARER_TOKEN as imported
    case_numbers,    \* main: the identifiers to fetch, in input order
    columns,         \* main: config['columns'] / the fieldnames of the writer
    i,               \* main: the loop counter of enumerate(case_numbers, 1)
    case_data,       \* main: what fetch_case returned; the record argument
    extracted_data,  \* the row built by the extractor for case_data
    jira_links,      \* result of a call of extract_jira_links
    cases_data,      \* main: rows collected so far
    failed_cases,    \* main: identifiers whose fetch gave no usable record
    exit_code,       \* process exit status, meaningful once pc = "exit"
    output_file,     \* the destination file: does it exist, and its lines
    opens,           \* number of times the destination was opened for writing
    events,          \* observable trace of the loop: fetches and sleeps
    outcomes,        \* what the server answered to each fetch, in order
    env,             \* what the environment answered: credentials, argv,
                     \* input file, destination
    input_lines      \* the lines of the text file given to a direct call of
                     \* read_case_numbers

vars == <<script, pc, BEARER_TOKEN, case_numbers, columns, i, case_data,
          extracted_data, jira_links, cases_data, failed_cases, exit_code,
          output_file, opens, events, outcomes, env, input_lines>>

(***************************************************************************)
(* Bounds of the model.                                                    *)
(***************************************************************************)
MaxTrackers == 4    \* longest externalTrackers list explored
MaxCases == 3       \* longest identifier list explored
MaxColumns == 3     \* longest requested column list explored
MaxRows == 2        \* longest row list handed directly to write_to_csv
MaxLines == 3       \* longest text file handed directly to read_case_numbers

(***************************************************************************)
(* Python values.  A value is a record tagged with its type; the payload   *)
(* field is named differently per type.  A dict is a function from its     *)
(* keys; a row (a dict whose key order matters) is kept as a sequence of   *)
(* [key, value] items in insertion order.                                  *)
(***************************************************************************)
PyStr(s) == [kind |-> "str", s |-> s]
PyNone == [kind |-> "none"]
PyBool(b) == [kind |-> "bool", b |-> b]
PyList(items) == [kind |-> "list", items |-> items]
PyDict(map) == [kind |-> "dict", map |-> map]

\* bool(v): Python truthiness, as used by `if v` and `a and b`
Truthy(v) ==
    CASE v.kind = "str" -> v.s # ""
      [] v.kind = "none" -> FALSE
      [] v.kind = "bool" -> v.b
      [] v.kind = "list" -> v.items # <<>>
      [] v.kind = "dict" -> DOMAIN v.map # {}

\* str(v), as applied by an f-string or by str()
Str(v) ==
    CASE v.kind = "str" -> v.s
      [] v.kind = "none" -> "None"
      [] v.kind = "bool" -> IF v.b THEN "True" ELSE "False"

\* The outcome of evaluating a piece of code: a value, or an exception
Return(v) == [raised |-> FALSE, value |-> v]
Raise == [raised |-> TRUE]

\* obj.get(key, default): only a dict has .get (AttributeError otherwise)
Get(obj, key, default) ==
    IF obj.kind # "dict" THEN Raise
    ELSE IF key \in DOMAIN obj.map THEN Return(obj.map[key])
    ELSE Return(default)

(***************************************************************************)
(* extract_jira_links                                                      *)
(***************************************************************************)
\* the test of line 100, with no check of the system tag
IsJiraLink_AnySystem(system, resource_key, resource_url) ==
    Truthy(resource_key) /\ Truthy(resource_url)

\* system == 'Jira' and resource_key and resource_url
IsJiraLink(system, resource_key, resource_url) ==
    system = PyStr("Jira") /\ Truthy(resource_key) /\ Truthy(resource_url)

\* f"[{resource_key}|{resource_url}]"
FormatLink(resource_key, resource_url) ==
    PyStr("[" \o Str(resource_key) \o "|" \o Str(resource_url) \o "]")

\* the loop `for tracker in external_trackers` over a list
RECURSIVE ForTrackers(_, _)
ForTrackers(trackers, links) ==
    IF trackers = <<>> THEN Return(links)
    ELSE LET tracker == Head(trackers)
             resource_key == Get(tracker, "resourceKey", PyStr(""))
             resource_url == Get(tracker, "resourceURL", PyStr(""))
             system == Get(tracker, "system", PyStr(""))
         IN IF resource_key.raised THEN Raise
            ELSE IF IsJiraLink(system.value, resource_key.value, resource_url.value)
                 THEN ForTrackers(Tail(trackers),
                          Append(links, FormatLink(resource_key.value, resource_url.value)))
                 ELSE ForTrackers(Tail(trackers), links)

\* while len(jira_links) < 3: jira_links.append("None")
RECURSIVE PadLinks(_)
PadLinks(links) ==
    IF Len(links) < 3 THEN PadLinks(Append(links, PyStr("None"))) ELSE links

\* the return of line 108 without the slice
FirstThree_NoSlice(links) == links

\* jira_links[:3]
FirstThree(links) == SubSeq(links, 1, IF Len(links) < 3 THEN Len(links) ELSE 3)

extract_jira_links(record) ==
    LET external_trackers == Get(record, "externalTrackers", PyList(<<>>))
    IN IF external_trackers.raised THEN Raise
       ELSE LET t == external_trackers.value
            IN CASE t.kind = "list" ->
                      LET looped == ForTrackers(t.items, <<>>)
                      IN IF looped.raised THEN Raise
                         ELSE Return(FirstThree(PadLinks(looped.value)))
                 \* iterating a str or a dict yields strs, which have no .get
                 [] t.kind \in {"str", "dict"} ->
                      IF Truthy(t) THEN Raise
                      ELSE Return(FirstThree(PadLinks(<<>>)))
                 \* None and bool are not iterable (TypeError)
                 [] OTHER -> Raise

(***************************************************************************)
(* FIELD_MAPPINGS: the catalog of fetch_cases_config.py                    *)
(***************************************************************************)
\* columns of the form  lambda d: d.get(<key>, 'N/A')
PlainColumns ==
    [c \in {"Case Number", "Account", "Account Name", "Status",
            "Internal Status", "Support Type", "Severity", "Priority Score",
            "Summary", "Description", "Issue", "Environment", "Product",
            "Version", "Contact Name", "Contact SSO", "Owner", "Created By",
            "Created Date", "Last Modified Date", "Last Closed At",
            "OpenShift Cluster ID", "Case Language", "Origin",
            "Entitlement SLA", "SBT"} |->
        CASE c = "Case Number" -> "caseNumber"
          [] c = "Account" -> "accountNumberRef"
          [] c = "Account Name" -> "accountName"
          [] c = "Status" -> "status"
          [] c = "Internal Status" -> "internalStatus"
          [] c = "Support Type" -> "caseType"
          [] c = "Severity" -> "severity"
          [] c = "Priority Score" -> "priorityScore"
          [] c = "Summary" -> "summary"
          [] c = "Description" -> "description"
          [] c = "Issue" -> "issue"
          [] c = "Environment" -> "environment"
          [] c = "Product" -> "product"
          [] c = "Version" -> "version"
          [] c = "Contact Name" -> "contactName"
          [] c = "Contact SSO" -> "contactSSOName"
          [] c = "Owner" -> "ownerId"
          [] c = "Created By" -> "createdById"
          [] c = "Created Date" -> "createdDate"
          [] c = "Last Modified Date" -> "lastModifiedDate"
          [] c = "Last Closed At" -> "lastClosedAt"
          [] c = "OpenShift Cluster ID" -> "openshiftClusterID"
          [] c = "Case Language" -> "caseLanguage"
          [] c = "Origin" -> "origin"
          [] c = "Entitlement SLA" -> "entitlementSla"
          [] c = "SBT" -> "sbt"]

\* columns of the form  lambda d: str(d.get(<key>, False))
FlagColumns ==
    [c \in {"Is Closed", "FTS", "Customer Escalation", "Strategic Account"} |->
        CASE c = "Is Closed" -> "isClosed"
          [] c = "FTS" -> "fts"
          [] c = "Customer Escalation" -> "customerEscalation"
          [] c = "Strategic Account" -> "isStrategicAccount"]

\* ', '.join(items) for a list; a non-str item is a TypeError
RECURSIVE Join(_)
Join(items) ==
    IF items = <<>> THEN Return("")
    ELSE IF Head(items).kind # "str" THEN Raise
    ELSE LET rest == Join(Tail(items))
         IN IF rest.raised THEN Raise
            ELSE IF Tail(items) = <<>> THEN Return(Head(items).s)
            ELSE Return(Head(items).s \o ", " \o rest.value)

\* lambda d: extract_jira_links(d)[n - 1]
JiraColumn(d, n) ==
    LET links == extract_jira_links(d)
    IN IF links.raised THEN Raise ELSE Return(links.value[n])

\* lambda d: ', '.join([j for j in extract_jira_links(d) if j != 'None'])
AllJiraLinks(d) ==
    LET links == extract_jira_links(d)
    IN IF links.raised THEN Raise
       ELSE LET joined == Join(SelectSeq(links.value, LAMBDA j : j # PyStr("None")))
            IN Return(PyStr(joined.value))

\* lambda d: ', '.join(d.get('sbrGroups', [])) if d.get('sbrGroups') else 'N/A'
SbrGroups(d) ==
    LET cond == Get(d, "sbrGroups", PyNone)
    IN IF cond.raised THEN Raise
       ELSE IF ~Truthy(cond.value) THEN Return(PyStr("N/A"))
       ELSE CASE cond.value.kind = "list" ->
                     LET joined == Join(cond.value.items)
                     IN IF joined.raised THEN Raise
                        ELSE Return(PyStr(joined.value))
              [] cond.value.kind = "bool" -> Raise

\* lambda d: f"https://access.redhat.com/support/cases/#/case/{d.get('caseNumber', '')}"
CaseUrl(d) ==
    LET n == Get(d, "caseNumber", PyStr(""))
    IN IF n.raised THEN Raise
       ELSE Return(PyStr("https://access.redhat.com/support/cases/#/case/" \o Str(n.value)))

\* the keys of FIELD_MAPPINGS
CatalogColumns ==
    DOMAIN PlainColumns \cup DOMAIN FlagColumns
        \cup {"Jira-1", "Jira-2", "Jira-3", "All Jira Links", "SBR Groups", "Case URL"}

\* FIELD_MAPPINGS[column](d)
FIELD_MAPPINGS(column, d) ==
    CASE column \in DOMAIN PlainColumns -> Get(d, PlainColumns[column], PyStr("N/A"))
      [] column \in DOMAIN FlagColumns ->
            LET v == Get(d, FlagColumns[column], PyBool(FALSE))
            IN IF v.raised THEN Raise ELSE Return(PyStr(Str(v.value)))
      [] column = "Jira-1" -> JiraColumn(d, 1)
      [] column = "Jira-2" -> JiraColumn(d, 2)
      [] column = "Jira-3" -> JiraColumn(d, 3)
      [] column = "All Jira Links" -> AllJiraLinks(d)
      [] column = "SBR Groups" -> SbrGroups(d)
      [] column = "Case URL" -> CaseUrl(d)

(***************************************************************************)
(* Rows: ordered dicts                                                     *)
(***************************************************************************)
HasKey(row, key) == \E k \in 1..Len(row) : row[k].key = key

\* row[key] = value: a new key goes last, a known key keeps its place
SetItem(row, key, value) ==
    IF HasKey(row, key)
    THEN [k \in 1..Len(row) |->
             IF row[k].key = key THEN [key |-> key, value |-> value] ELSE row[k]]
    ELSE Append(row, [key |-> key, value |-> value])

\* list(row.keys())
Keys(row) == [k \in 1..Len(row) |-> row[k].key]

\* row[key], for a key of the row
Item(row, key) == row[CHOOSE k \in 1..Len(row) : row[k].key = key].value

(***************************************************************************)
(* extract_fields (fetch_cases_config.py)                                  *)
(***************************************************************************)
\* the loop body with the two placeholders taking each other's place
ColumnValue_Swapped(d, column) ==
    IF column \in CatalogColumns
    THEN LET r == FIELD_MAPPINGS(column, d)
         IN IF r.raised THEN PyStr("N/A") ELSE r.value
    ELSE PyStr("ERROR")

\* one pass of the loop body, lines 146-154: the value stored for the column
ColumnValue(d, column) ==
    IF column \in CatalogColumns
    THEN LET r == FIELD_MAPPINGS(column, d)
         IN IF r.raised THEN PyStr("ERROR") ELSE r.value
    ELSE PyStr("N/A")

\* the loop body without its else branch: an unknown column is left out
ColumnStep_SkipUnknown(d, extracted, column) ==
    IF column \in CatalogColumns
    THEN SetItem(extracted, column, ColumnValue(d, column))
    ELSE extracted

\* extracted[column] = ... of lines 148, 151 and 154
ColumnStep(d, extracted, column) ==
    SetItem(extracted, column, ColumnValue(d, column))

RECURSIVE ForColumns(_, _, _)
ForColumns(d, column_names, extracted) ==
    IF column_names = <<>> THEN extracted
    ELSE ForColumns(d, Tail(column_names),
                    ColumnStep(d, extracted, Head(column_names)))

extract_fields(d, column_names) == ForColumns(d, column_names, <<>>)

(***************************************************************************)
(* extract_case_data (fetch_cases.py)                                      *)
(***************************************************************************)
FixedColumns ==
    <<"Case Number", "Account", "Status", "Support Type", "Severity",
      "Description", "Jira-1", "Jira-2", "Jira-3">>

\* lines 88-116 without the summary of lines 98-99
extract_case_data_NoSummary(d) ==
    LET case_number == Get(d, "caseNumber", PyStr("N/A"))
        account == Get(d, "accountNumberRef", PyStr("N/A"))
        status == Get(d, "status", PyStr("N/A"))
        support_type == Get(d, "caseType", PyStr("N/A"))
        severity == Get(d, "severity", PyStr("N/A"))
        description == Get(d, "description", PyStr("N/A"))
        links == extract_jira_links(d)
    IN IF case_number.raised \/ links.raised THEN Raise
       ELSE Return(<<[key |-> "Case Number", value |-> case_number.value],
                     [key |-> "Account", value |-> account.value],
                     [key |-> "Status", value |-> status.value],
                     [key |-> "Support Type", value |-> support_type.value],
                     [key |-> "Severity", value |-> severity.value],
                     [key |-> "Description", value |-> description.value],
                     [key |-> "Jira-1", value |-> links.value[1]],
                     [key |-> "Jira-2", value |-> links.value[2]],
                     [key |-> "Jira-3", value |-> links.value[3]]>>)

extract_case_data(d) ==
    LET case_number == Get(d, "caseNumber", PyStr("N/A"))
        account == Get(d, "accountNumberRef", PyStr("N/A"))
        status == Get(d, "status", PyStr("N/A"))
        support_type == Get(d, "caseType", PyStr("N/A"))
        severity == Get(d, "severity", PyStr("N/A"))
        summary == Get(d, "summary", PyStr(""))
        description == IF Truthy(summary.value) THEN summary
                       ELSE Get(d, "description", PyStr("N/A"))
        links == extract_jira_links(d)
    IN IF case_number.raised \/ links.raised THEN Raise
       ELSE Return(<<[key |-> "Case Number", value |-> case_number.value],
                     [key |-> "Account", value |-> account.value],
                     [key |-> "Status", value |-> status.value],
                     [key |-> "Support Type", value |-> support_type.value],
                     [key |-> "Severity", value |-> severity.value],
                     [key |-> "Description", value |-> description.value],
                     [key |-> "Jira-1", value |-> links.value[1]],
                     [key |-> "Jira-2", value |-> links.value[2]],
                     [key |-> "Jira-3", value |-> links.value[3]]>>)

(***************************************************************************)
(* Inputs explored                                                         *)
(***************************************************************************)
Tracker(system, resource_key, resource_url) ==
    PyDict([system |-> PyStr(system), resourceKey |-> PyStr(resource_key),
            resourceURL |-> PyStr(resource_url)])

Jira1 == Tracker("Jira", "AB-1", "http://x")
OtherZ == Tracker("Other", "Z", "http://y")
Jira2 == Tracker("Jira", "AB-2", "http://z")
EmptyKey == Tracker("Jira", "", "http://w")
NoUrl == PyDict([system |-> PyStr("Jira"), resourceKey |-> PyStr("AB-5")])
NoSystem == PyDict([resourceKey |-> PyStr("AB-6"), resourceURL |-> PyStr("http://v")])
NullKey == PyDict([system |-> PyStr("Jira"), resourceKey |-> PyNone,
                   resourceURL |-> PyStr("http://n")])

\* tracker entries that are mappings
TrackerEntries == {Jira1, OtherZ, Jira2, EmptyKey, NoUrl, NoSystem, NullKey}

\* entries that are not mappings
BadEntries == {PyNone, PyStr("AB-9")}

SeqsUpTo(S, n) == UNION {[1..m -> S] : m \in 0..n}

WithTrackers(value) == PyDict([caseNumber |-> PyStr("111"), externalTrackers |-> value])

\* records handed to extract_jira_links
LinkRecords ==
    {WithTrackers(PyList(l)) : l \in SeqsUpTo(TrackerEntries \cup BadEntries, MaxTrackers)}
        \cup {PyDict([caseNumber |-> PyStr("111")]), PyDict(<<>>),
              WithTrackers(PyNone), WithTrackers(PyStr("")),
              WithTrackers(PyStr("AB-1")), WithTrackers(PyDict(<<>>)),
              PyList(<<PyStr("111")>>)}

ScenarioB == WithTrackers(PyList(<<Jira1, OtherZ, Jira2>>))

\* records handed to the row extractors
FieldRecords ==
    {PyDict(<<>>),
     PyDict([caseNumber |-> PyStr("111"), status |-> PyStr("Open"),
             summary |-> PyStr("s"), description |-> PyStr("d"),
             isClosed |-> PyBool(FALSE)]),
     PyDict([caseNumber |-> PyStr("222"), status |-> PyStr("Closed"),
             summary |-> PyStr(""), description |-> PyStr("d2"),
             isClosed |-> PyBool(TRUE),
             externalTrackers |-> PyList(<<Jira1, OtherZ, Jira2>>)]),
     PyDict([caseNumber |-> PyStr("333"), status |-> PyNone,
             externalTrackers |-> PyList(<<Jira2, Jira1, Jira1, Jira2>>),
             sbrGroups |-> PyList(<<PyStr("Shift"), PyStr("Storage")>>)]),
     PyDict([caseNumber |-> PyStr("444"), externalTrackers |-> PyNone,
             sbrGroups |-> PyBool(TRUE)]),
     PyList(<<PyStr("111")>>)}

\* column names a caller may request: catalog names and one unknown name
ColumnNames == {"Status", "Jira-1", "All Jira Links", "Is Closed", "Bogus"}

ColumnLists == SeqsUpTo(ColumnNames, MaxColumns)

NoResult == Return(<<>>)

EnvStart == [credentials |-> "unread", argv |-> "unread", input |-> "unread",
             config |-> {}, output |-> "untried"]

\* the variables of main, for a run that only calls one function
MainIdle ==
    /\ BEARER_TOKEN = PyStr("token")
    /\ case_numbers = <<>>
    /\ i = 0
    /\ failed_cases = <<>>
    /\ exit_code = 0
    /\ opens = 0
    /\ events = <<>>
    /\ outcomes = <<>>
    /\ env = EnvStart

NoFile == [exists |-> FALSE, lines |-> <<>>]

(***************************************************************************)
(* read_case_numbers (fetch_cases.py).  A line is the sequence of its      *)
(* characters, as is an identifier.                                        *)
(***************************************************************************)
Whitespace == {" ", "\t", "\n", "\r"}

RECURSIVE LStrip(_)
LStrip(line) ==
    IF line # <<>> /\ Head(line) \in Whitespace THEN LStrip(Tail(line)) ELSE line

RECURSIVE RStrip(_)
RStrip(line) ==
    IF line # <<>> /\ line[Len(line)] \in Whitespace
    THEN RStrip(SubSeq(line, 1, Len(line) - 1))
    ELSE line

\* line.strip()
Strip(line) == RStrip(LStrip(line))

\* the loop of lines 125-129 with the test of '#' made before the strip
RECURSIVE read_case_numbers_HashBeforeStrip(_)
read_case_numbers_HashBeforeStrip(lines) ==
    IF lines = <<>> THEN <<>>
    ELSE LET line == Strip(Head(lines))
         IN IF line # <<>> /\ Head(Head(lines)) # "#"
            THEN <<line>> \o read_case_numbers_HashBeforeStrip(Tail(lines))
            ELSE read_case_numbers_HashBeforeStrip(Tail(lines))

\* the loop of lines 125-129
RECURSIVE read_case_numbers(_)
read_case_numbers(lines) ==
    IF lines = <<>> THEN <<>>
    ELSE LET line == Strip(Head(lines))
         IN IF line # <<>> /\ Head(line) # "#"
            THEN <<line>> \o read_case_numbers(Tail(lines))
            ELSE read_case_numbers(Tail(lines))

(***************************************************************************)
(* fetch_case: the value returned for each answer of the server            *)
(***************************************************************************)
fetch_case(response) ==
    IF response.kind = "network" THEN PyNone
    ELSE IF response.status_code = 200 THEN response.json
    ELSE PyNone

(***************************************************************************)
(* write_to_csv.  The file is kept as the list of its lines, a line as the *)
(* list of its cells; CSV quoting is not modelled.                         *)
(***************************************************************************)
\* the csv writer writes None as the empty string and str() of anything else
CsvCell(v) == IF v.kind = "none" THEN "" ELSE Str(v)

\* DictWriter._dict_to_list with restval ''
DictToList(row, fieldnames) ==
    [k \in 1..Len(fieldnames) |->
        IF HasKey(row, fieldnames[k]) THEN CsvCell(Item(row, fieldnames[k])) ELSE ""]

\* extrasaction='raise': a row with a key outside fieldnames is a ValueError
HasExtras(row, fieldnames) ==
    \E k \in 1..Len(row) : \A f \in 1..Len(fieldnames) : fieldnames[f] # row[k].key

\* the rows before the first one that cannot be written
RECURSIVE Writable(_, _)
Writable(rows, fieldnames) ==
    IF rows = <<>> \/ HasExtras(Head(rows), fieldnames) THEN <<>>
    ELSE <<Head(rows)>> \o Writable(Tail(rows), fieldnames)

\* the lines of the file when writer.writeheader() is left out
CsvLines_NoHeader(rows, fieldnames) ==
    [k \in 1..Len(rows) |-> DictToList(rows[k], fieldnames)]

\* writer.writeheader() and writer.writerows(cases_data)
CsvLines(rows, fieldnames) ==
    <<fieldnames>> \o [k \in 1..Len(rows) |-> DictToList(rows[k], fieldnames)]

\* write_to_csv with the guard of lines 187-189 left out
write_to_csv_NoGuard(rows, fieldnames, file, dest) ==
    IF dest.kind = "open_fails"
    THEN [file |-> file, opened |-> 0, exits |-> TRUE]
    ELSE [file |-> [exists |-> TRUE, lines |-> CsvLines(rows, fieldnames)],
          opened |-> 1, exits |-> FALSE]

\* dest is the behaviour of the destination: "ok", "open_fails", or
\* "write_fails" after `written` lines
write_to_csv(rows, fieldnames, file, dest) ==
    IF rows = <<>>
    THEN [file |-> file, opened |-> 0, exits |-> FALSE]
    ELSE IF dest.kind = "open_fails"
    THEN [file |-> file, opened |-> 0, exits |-> TRUE]
    ELSE LET good == Writable(rows, fieldnames)
             all == CsvLines(good, fieldnames)
             n == IF dest.kind = "write_fails" /\ dest.written < Len(all)
                  THEN dest.written ELSE Len(all)
         IN [file |-> [exists |-> TRUE, lines |-> SubSeq(all, 1, n)],
             opened |-> 1,
             exits |-> (n < Len(all) \/ Len(good) < Len(rows))]

Destinations(rows) ==
    {[kind |-> "ok"], [kind |-> "open_fails"]}
        \cup {[kind |-> "write_fails", written |-> k] : k \in 0..Len(rows)}

(***************************************************************************)
(* main                                                                    *)
(***************************************************************************)
Ids == {<<"1", "1", "1">>, <<"2", "2", "2">>}

\* lines of the text input of fetch_cases.py
RunLines ==
    {<<"1", "1", "1", "\n">>, <<" ", "2", "2", "2", " ", "\n">>, <<"\n">>,
     <<"#", "1", "1", "1", "\n">>}

InputFiles ==
    {[state |-> "missing"], [state |-> "unreadable"]}
        \cup {[state |-> "ok", lines |-> l] : l \in SeqsUpTo(RunLines, MaxCases)}

RunColumnLists ==
    {<<"Case Number", "Status", "Jira-1", "Bogus">>, <<"Jira-2", "Is Closed", "Jira-2">>}

\* the JSON configuration of fetch_cases_config.py
ConfigFiles ==
    {[state |-> "missing"], [state |-> "invalid_json"],
     [state |-> "ok", doc |-> <<>>]}
        \cup {[state |-> "ok", doc |-> [cases |-> c]] : c \in {<<>>}}
        \cup {[state |-> "ok", doc |-> [columns |-> c]] : c \in RunColumnLists}
        \cup {[state |-> "ok", doc |-> [cases |-> c, columns |-> l]] :
                 c \in SeqsUpTo(Ids, MaxCases), l \in RunColumnLists}

Tokens == {PyNone, PyStr(""), PyStr("None"), PyStr("token")}

\* bodies the server may send with HTTP 200
RunBodies ==
    {PyDict(<<>>),
     PyDict([caseNumber |-> PyStr("111"), status |-> PyStr("Open"),
             summary |-> PyStr("s"), isClosed |-> PyBool(FALSE)]),
     PyDict([caseNumber |-> PyStr("222"), description |-> PyStr("d2"),
             externalTrackers |-> PyList(<<Jira1, OtherZ, Jira2>>)]),
     PyDict([caseNumber |-> PyStr("444"), externalTrackers |-> PyNone])}

Responses ==
    {[kind |-> "http", status_code |-> 200, json |-> b] : b \in RunBodies}
        \cup {[kind |-> "http", status_code |-> c, json |-> PyNone] : c \in {401, 404, 500}}
        \cup {[kind |-> "network", status_code |-> 0, json |-> PyNone]}

OldFile == [exists |-> TRUE, lines |-> <<<<"old">>>>]

Init ==
    /\ script \in {"fixed", "config"}
    /\ pc = "import"
    /\ BEARER_TOKEN = PyNone
    /\ case_numbers = <<>>
    /\ columns = <<>>
    /\ i = 0
    /\ case_data = PyNone
    /\ extracted_data = <<>>
    /\ jira_links = NoResult
    /\ cases_data = <<>>
    /\ failed_cases = <<>>
    /\ exit_code = 0
    /\ output_file \in {NoFile, OldFile}
    /\ opens = 0
    /\ events = <<>>
    /\ outcomes = <<>>
    /\ env = EnvStart
    /\ input_lines = <<>>

\* sys.exit(1)
Exit1 == pc' = "exit" /\ exit_code' = 1

\* an exception nobody catches: the interpreter prints it and exits with 1
Traceback == pc' = "traceback" /\ exit_code' = 1

\* from credentials import BEARER_TOKEN, lines 19-24 (21-26 in fetch_cases.py)
ImportCredentials ==
    /\ pc = "import"
    /\ \/ /\ env' = [env EXCEPT !.credentials = "missing"]
          /\ Exit1
          /\ UNCHANGED BEARER_TOKEN
       \/ \E token \in Tokens :
              /\ env' = [env EXCEPT !.credentials = "imported"]
              /\ BEARER_TOKEN' = token
              /\ pc' = "args"
              /\ UNCHANGED exit_code
    /\ UNCHANGED <<input_lines, script, case_numbers, columns, i, case_data, extracted_data,
                   jira_links, cases_data, failed_cases, output_file, opens,
                   events, outcomes>>

\* if len(sys.argv) < 2
ParseArgs ==
    /\ pc = "args"
    /\ \E given \in BOOLEAN :
          IF given
          THEN /\ env' = [env EXCEPT !.argv = "given"]
               /\ pc' = IF script = "config" THEN "load_config" ELSE "check_token"
               /\ UNCHANGED exit_code
          ELSE /\ env' = [env EXCEPT !.argv = "absent"]
               /\ Exit1
    /\ UNCHANGED <<input_lines, script, BEARER_TOKEN, case_numbers, columns, i, case_data,
                   extracted_data, jira_links, cases_data, failed_cases,
                   output_file, opens, events, outcomes>>

\* load_config that answers a missing file with an empty configuration
load_config_DefaultOnMissing(config) ==
    IF config.state = "missing"
    THEN [exits |-> FALSE, cases |-> <<>>, columns |-> <<>>]
    ELSE IF config.state # "ok"
    THEN [exits |-> TRUE, cases |-> <<>>, columns |-> <<>>]
    ELSE IF "cases" \notin DOMAIN config.doc \/ "columns" \notin DOMAIN config.doc
    THEN [exits |-> TRUE, cases |-> <<>>, columns |-> <<>>]
    ELSE [exits |-> FALSE, cases |-> config.doc.cases,
          columns |-> config.doc.columns]

\* load_config: sys.exit(1) for a missing file, invalid JSON, or a document
\* without 'cases' or without 'columns'; the document otherwise
load_config(config) ==
    IF config.state # "ok"
    THEN [exits |-> TRUE, cases |-> <<>>, columns |-> <<>>]
    ELSE IF "cases" \notin DOMAIN config.doc \/ "columns" \notin DOMAIN config.doc
    THEN [exits |-> TRUE, cases |-> <<>>, columns |-> <<>>]
    ELSE [exits |-> FALSE, cases |-> config.doc.cases,
          columns |-> config.doc.columns]

\* config = load_config(config_file) and lines 233-235 of main
LoadConfig ==
    /\ pc = "load_config"
    /\ \E config \in ConfigFiles :
          LET loaded == load_config(config)
          IN /\ env' = [env EXCEPT
                           !.input = IF config.state # "ok" THEN config.state
                                     ELSE IF {"cases", "columns"} \subseteq DOMAIN config.doc
                                     THEN "ok" ELSE "no_key",
                           !.config = IF config.state = "ok"
                                      THEN DOMAIN config.doc ELSE {}]
             /\ IF loaded.exits
                THEN Exit1 /\ UNCHANGED <<case_numbers, columns>>
                ELSE /\ case_numbers' = loaded.cases
                     /\ columns' = loaded.columns
                     /\ pc' = "check_token"
                     /\ UNCHANGED exit_code
    /\ UNCHANGED <<input_lines, script, BEARER_TOKEN, i, case_data, extracted_data,
                   jira_links, cases_data, failed_cases, output_file, opens,
                   events, outcomes>>

\* the test of the token without the comparison with the placeholder
NoToken_EmptyOnly(token) == ~Truthy(token)

\* not BEARER_TOKEN or BEARER_TOKEN == "None"
NoToken(token) == ~Truthy(token) \/ token = PyStr("None")

\* if not BEARER_TOKEN or BEARER_TOKEN == "None": ... sys.exit(1)
CheckToken ==
    /\ pc = "check_token"
    /\ IF NoToken(BEARER_TOKEN)
       THEN Exit1
       ELSE /\ pc' = IF script = "fixed" THEN "read_input" ELSE "loop"
            /\ UNCHANGED exit_code
    /\ UNCHANGED <<input_lines, script, BEARER_TOKEN, case_numbers, columns, i, case_data,
                   extracted_data, jira_links, cases_data, failed_cases,
                   output_file, opens, events, outcomes, env>>

\* case_numbers = read_case_numbers(input_file)
ReadCaseNumbers ==
    /\ pc = "read_input"
    /\ \E input \in InputFiles :
          IF input.state = "ok"
          THEN /\ env' = [env EXCEPT !.input = "ok"]
               /\ case_numbers' = read_case_numbers(input.lines)
               /\ pc' = "loop"
               /\ UNCHANGED exit_code
          ELSE /\ env' = [env EXCEPT !.input = input.state]
               /\ Exit1
               /\ UNCHANGED case_numbers
    /\ UNCHANGED <<input_lines, script, BEARER_TOKEN, columns, i, case_data, extracted_data,
                   jira_links, cases_data, failed_cases, output_file, opens,
                   events, outcomes>>

\* the next pass of the loop: case_data = fetch_case(case_number, BEARER_TOKEN)
FetchCase ==
    /\ pc = "loop"
    /\ i < Len(case_numbers)
    /\ i' = i + 1
    /\ \E response \in Responses :
          /\ case_data' = fetch_case(response)
          /\ outcomes' = Append(outcomes, response)
    /\ events' = Append(events, [e |-> "fetch", n |-> i + 1])
    /\ pc' = "fetched"
    /\ UNCHANGED <<input_lines, script, BEARER_TOKEN, case_numbers, columns, extracted_data,
                   jira_links, cases_data, failed_cases, exit_code, output_file,
                   opens, env>>

\* the row of a fetched record: extract_case_data or extract_fields
ExtractRow(which, data, column_names) ==
    IF which = "fixed" THEN extract_case_data(data)
    ELSE Return(extract_fields(data, column_names))

\* lines 267-273 with the else branch left out
Collect_NoElse(which, rows, failed, case_number, data, column_names) ==
    IF Truthy(data)
    THEN LET row == ExtractRow(which, data, column_names)
         IN IF row.raised
            THEN [raised |-> TRUE, cases_data |-> rows, failed_cases |-> failed]
            ELSE [raised |-> FALSE, cases_data |-> Append(rows, row.value),
                  failed_cases |-> failed]
    ELSE [raised |-> FALSE, cases_data |-> rows, failed_cases |-> failed]

\* if case_data: ... cases_data.append(...) else: failed_cases.append(...)
Collect(which, rows, failed, case_number, data, column_names) ==
    IF Truthy(data)
    THEN LET row == ExtractRow(which, data, column_names)
         IN IF row.raised
            THEN [raised |-> TRUE, cases_data |-> rows, failed_cases |-> failed]
            ELSE [raised |-> FALSE, cases_data |-> Append(rows, row.value),
                  failed_cases |-> failed]
    ELSE [raised |-> FALSE, cases_data |-> rows,
          failed_cases |-> Append(failed, case_number)]

HandleCase ==
    /\ pc = "fetched"
    /\ LET r == Collect(script, cases_data, failed_cases, case_numbers[i],
                        case_data, columns)
       IN /\ cases_data' = r.cases_data
          /\ failed_cases' = r.failed_cases
          /\ extracted_data' =
                IF Len(r.cases_data) > Len(cases_data)
                THEN r.cases_data[Len(r.cases_data)] ELSE extracted_data
          /\ IF r.raised
             THEN Traceback /\ UNCHANGED events
             ELSE /\ pc' = "throttle"
                  /\ events' = Append(events, [e |-> "processed", n |-> i])
                  /\ UNCHANGED exit_code
    /\ UNCHANGED <<input_lines, script, BEARER_TOKEN, case_numbers, columns, i, case_data,
                   jira_links, output_file, opens, outcomes, env>>

\* the test of line 276 made on every pass
NeedsPause_Always(n, total) == n <= total

\* if i < len(case_numbers)
NeedsPause(n, total) == n < total

\* time.sleep(0.5), or nothing after the last identifier
Throttle ==
    /\ pc = "throttle"
    /\ events' = IF NeedsPause(i, Len(case_numbers))
                 THEN Append(events, [e |-> "sleep", n |-> i])
                 ELSE events
    /\ pc' = "loop"
    /\ UNCHANGED <<input_lines, script, BEARER_TOKEN, case_numbers, columns, i, case_data,
                   extracted_data, jira_links, cases_data, failed_cases,
                   exit_code, output_file, opens, outcomes, env>>

\* the loop is over: the summary, then `if cases_data`
Summary ==
    /\ pc = "loop"
    /\ i = Len(case_numbers)
    /\ IF cases_data # <<>>
       THEN pc' = "write" /\ UNCHANGED exit_code
       ELSE Exit1
    /\ UNCHANGED <<input_lines, script, BEARER_TOKEN, case_numbers, columns, i, case_data,
                   extracted_data, jira_links, cases_data, failed_cases,
                   output_file, opens, events, outcomes, env>>

Fieldnames == IF script = "fixed" THEN FixedColumns ELSE columns

\* write_to_csv(cases_data, output_file[, columns]) and the end of main
WriteOutput ==
    /\ pc = "write"
    /\ \E dest \in Destinations(cases_data) :
          LET w == write_to_csv(cases_data, Fieldnames, output_file, dest)
          IN /\ output_file' = w.file
             /\ opens' = opens + w.opened
             /\ env' = [env EXCEPT !.output = IF w.exits THEN "failed" ELSE "written"]
             /\ IF w.exits THEN Exit1
                ELSE pc' = "done" /\ exit_code' = 0
    /\ UNCHANGED <<input_lines, script, BEARER_TOKEN, case_numbers, columns, i, case_data,
                   extracted_data, jira_links, cases_data, failed_cases,
                   events, outcomes>>

Next ==
    \/ ImportCredentials
    \/ ParseArgs
    \/ LoadConfig
    \/ CheckToken
    \/ ReadCaseNumbers
    \/ FetchCase
    \/ HandleCase
    \/ Throttle
    \/ Summary
    \/ WriteOutput

Spec == Init /\ [][Next]_vars

(***************************************************************************)
(* SpecLinks: extract_jira_links applied to every record of LinkRecords    *)
(***************************************************************************)
InitLinks ==
    /\ MainIdle
    /\ input_lines = <<>>
    /\ script \in {"fixed", "config"}
    /\ pc = "call_extract_jira_links"
    /\ case_data \in LinkRecords
    /\ columns = <<>>
    /\ extracted_data = <<>>
    /\ jira_links = NoResult
    /\ cases_data = <<>>
    /\ output_file = NoFile

CallExtractJiraLinks ==
    /\ pc = "call_extract_jira_links"
    /\ jira_links' = extract_jira_links(case_data)
    /\ pc' = "returned_extract_jira_links"
    /\ UNCHANGED <<input_lines, script, BEARER_TOKEN, case_numbers, columns, i, case_data,
                   extracted_data, cases_data, failed_cases, exit_code,
                   output_file, opens, events, outcomes, env>>

SpecLinks == InitLinks /\ [][CallExtractJiraLinks]_vars

(***************************************************************************)
(* SpecFields: extract_fields applied to every record of FieldRecords and  *)
(* every column list of ColumnLists                                        *)
(***************************************************************************)
InitFields ==
    /\ MainIdle
    /\ input_lines = <<>>
    /\ script = "config"
    /\ pc = "call_extract_fields"
    /\ case_data \in FieldRecords
    /\ columns \in ColumnLists
    /\ extracted_data = <<>>
    /\ jira_links = NoResult
    /\ cases_data = <<>>
    /\ output_file = NoFile

CallExtractFields ==
    /\ pc = "call_extract_fields"
    /\ extracted_data' = extract_fields(case_data, columns)
    /\ pc' = "returned_extract_fields"
    /\ UNCHANGED <<input_lines, script, BEARER_TOKEN, case_numbers, columns, i, case_data,
                   jira_links, cases_data, failed_cases, exit_code,
                   output_file, opens, events, outcomes, env>>

SpecFields == InitFields /\ [][CallExtractFields]_vars

(***************************************************************************)
(* SpecWrite: write_to_csv called directly, on every row list of           *)
(* WriteRowLists; SpecWriter: those calls and the runs of main             *)
(***************************************************************************)
WriteRows(which, fieldnames) ==
    IF which = "fixed"
    THEN {extract_case_data(r).value : r \in {d \in FieldRecords : ~extract_case_data(d).raised}}
    ELSE {extract_fields(r, fieldnames) : r \in FieldRecords}
             \cup {<<[key |-> "Extra", value |-> PyStr("x")]>>}

InitWrite ==
    /\ MainIdle
    /\ input_lines = <<>>
    /\ script \in {"fixed", "config"}
    /\ pc = "call_write_to_csv"
    /\ case_data = PyNone
    /\ columns \in IF script = "fixed" THEN {<<>>} ELSE ColumnLists
    /\ extracted_data = <<>>
    /\ jira_links = NoResult
    /\ cases_data \in SeqsUpTo(WriteRows(script, columns), MaxRows)
    /\ output_file \in {NoFile, OldFile}

CallWriteToCsv ==
    /\ pc = "call_write_to_csv"
    /\ \E dest \in Destinations(cases_data) :
          LET w == write_to_csv(cases_data, Fieldnames, output_file, dest)
          IN /\ output_file' = w.file
             /\ opens' = opens + w.opened
             /\ env' = [env EXCEPT !.output = IF w.exits THEN "failed" ELSE "written"]
             /\ IF w.exits THEN Exit1
                ELSE pc' = "returned_write_to_csv" /\ UNCHANGED exit_code
    /\ UNCHANGED <<input_lines, script, BEARER_TOKEN, case_numbers, columns, i, case_data,
                   extracted_data, jira_links, cases_data, failed_cases,
                   events, outcomes>>

SpecWrite == InitWrite /\ [][CallWriteToCsv]_vars

InitWriter == Init \/ InitWrite

NextWriter == Next \/ CallWriteToCsv

SpecWriter == InitWriter /\ [][NextWriter]_vars

(***************************************************************************)
(* SpecRead: read_case_numbers applied to every file of ReadFiles          *)
(***************************************************************************)
\* lines of a text file: identifiers bare and padded, blank lines, comments
\* at the margin and indented, a '#' inside an identifier
ReadLines ==
    {<<"1", "1", "1", "\n">>, <<" ", "2", "2", "2", " ", "\n">>, <<"\n">>,
     <<" ", "\t", "\n">>, <<"#", "1", "\n">>, <<" ", "#", "1", "\n">>,
     <<"1", "#", "\n">>, <<"1", " ", "2">>}

ReadFiles == SeqsUpTo(ReadLines, MaxLines)

InitRead ==
    /\ MainIdle
    /\ script = "fixed"
    /\ pc = "call_read_case_numbers"
    /\ case_data = PyNone
    /\ columns = <<>>
    /\ extracted_data = <<>>
    /\ jira_links = NoResult
    /\ cases_data = <<>>
    /\ output_file = NoFile
    /\ \E file \in ReadFiles :
          input_lines = file

CallReadCaseNumbers ==
    /\ pc = "call_read_case_numbers"
    /\ case_numbers' = read_case_numbers(input_lines)
    /\ pc' = "returned_read_case_numbers"
    /\ UNCHANGED <<input_lines, script, BEARER_TOKEN, columns, i, case_data,
                   extracted_data, jira_links, cases_data, failed_cases,
                   exit_code, output_file, opens, events, outcomes, env>>

SpecRead == InitRead /\ [][CallReadCaseNumbers]_vars

(***************************************************************************)
(* SpecRows: extract_case_data and extract_fields with the nine fixed      *)
(* columns, applied to every record of RowRecords                          *)
(***************************************************************************)
\* a field of a record: absent, or present with one of the values
Field(key, values) == {<<>>} \cup {key :> v : v \in values}

\* records with and without summary, description, status and tracker list
RowRecords ==
    {PyDict(("caseNumber" :> PyStr("111")) @@ summary @@ description @@ status @@ trackers) :
        summary \in Field("summary", {PyStr(""), PyStr("s"), PyNone}),
        description \in Field("description", {PyStr("d")}),
        status \in Field("status", {PyStr("Open"), PyNone}),
        trackers \in Field("externalTrackers",
                          {PyList(<<Jira1, OtherZ, Jira2>>), PyNone,
                           PyList(<<Jira1, PyNone>>),
                           PyList(<<Jira2, Jira1, Jira1, Jira2>>)})}
        \cup {PyList(<<PyStr("111")>>)}

InitRows ==
    /\ MainIdle
    /\ input_lines = <<>>
    /\ script = "fixed"
    /\ pc = "call_extractors"
    /\ case_data \in RowRecords
    /\ columns = FixedColumns
    /\ extracted_data = <<>>
    /\ jira_links = NoResult
    /\ cases_data = <<>>
    /\ output_file = NoFile

\* both extractors on the same record
CallExtractors ==
    /\ pc = "call_extractors"
    /\ extracted_data' = [fixed |-> extract_case_data(case_data),
                          catalog |-> extract_fields(case_data, columns)]
    /\ pc' = "returned_extractors"
    /\ UNCHANGED <<input_lines, script, BEARER_TOKEN, case_numbers, columns, i, case_data,
                   jira_links, cases_data, failed_cases, exit_code,
                   output_file, opens, events, outcomes, env>>

SpecRows == InitRows /\ [][CallExtractors]_vars

(***************************************************************************)
(* Properties of extract_jira_links (checked under SpecLinks)              *)
(***************************************************************************)
\* the record is a mapping whose tracker field, when present, is a list of mappings
WellFormed(record) ==
    /\ record.kind = "dict"
    /\ "externalTrackers" \in DOMAIN record.map =>
          /\ record.map.externalTrackers.kind = "list"
          /\ \A k \in 1..Len(record.map.externalTrackers.items) :
                 record.map.externalTrackers.items[k].kind = "dict"

TrackerList(record) ==
    IF "externalTrackers" \in DOMAIN record.map
    THEN record.map.externalTrackers.items ELSE <<>>

\* the text of an attribute of a tracker entry, "" when it is absent or null
Attr(entry, name) ==
    IF name \in DOMAIN entry.map /\ entry.map[name].kind = "str"
    THEN entry.map[name].s ELSE ""

\* eligible: tagged 'Jira', with a non-empty key and a non-empty URL
Eligible(entry) ==
    /\ Attr(entry, "system") = "Jira"
    /\ Attr(entry, "resourceKey") # ""
    /\ Attr(entry, "resourceURL") # ""

LinkText(entry) ==
    PyStr("[" \o Attr(entry, "resourceKey") \o "|" \o Attr(entry, "resourceURL") \o "]")

EligibleEntries(record) == SelectSeq(TrackerList(record), Eligible)

\* C2: for a record with L eligible tracker entries, extract_jira_links
\* returns exactly 3 strings: slot k is the k-th eligible entry as "[key|url]"
\* for k <= min(L, 3), in source order and with repetitions kept, and every
\* later slot is the literal "None".
Thm_C2_ThreeLinksPadded ==
    (pc = "returned_extract_jira_links" /\ WellFormed(case_data)) =>
        /\ ~jira_links.raised
        /\ Len(jira_links.value) = 3
        /\ \A k \in 1..3 :
              jira_links.value[k] =
                  IF k <= Len(EligibleEntries(case_data))
                  THEN LinkText(EligibleEntries(case_data)[k])
                  ELSE PyStr("None")

\* a call on a list with more than 3 eligible entries, two of them equal
Wit_C2_MoreThanThree ==
    /\ pc = "returned_extract_jira_links"
    /\ WellFormed(case_data)
    /\ TrackerList(case_data) = <<Jira2, Jira1, Jira1, Jira2>>
    /\ jira_links.value = <<PyStr("[AB-2|http://z]"), PyStr("[AB-1|http://x]"),
                            PyStr("[AB-1|http://x]")>>

\* the record without its ineligible tracker entries
OnlyEligible(record) ==
    PyDict([k \in DOMAIN record.map |->
               IF k = "externalTrackers" THEN PyList(EligibleEntries(record))
               ELSE record.map[k]])

\* C3: a tracker entry that is not eligible (wrong system tag, or empty or
\* absent key or URL) never shows in the output and takes no slot, wherever
\* it stands: every slot is "None" or the link of an eligible entry, and the
\* output is the one obtained after deleting the ineligible entries.
Thm_C3_IneligibleExcluded ==
    (pc = "returned_extract_jira_links" /\ WellFormed(case_data)) =>
        /\ ~jira_links.raised
        /\ \A k \in 1..Len(jira_links.value) :
              \/ jira_links.value[k] = PyStr("None")
              \/ \E e \in 1..Len(TrackerList(case_data)) :
                    /\ Eligible(TrackerList(case_data)[e])
                    /\ jira_links.value[k] = LinkText(TrackerList(case_data)[e])
        /\ \A e \in 1..Len(TrackerList(case_data)) :
              ~Eligible(TrackerList(case_data)[e]) =>
                  \A k \in 1..Len(jira_links.value) :
                      jira_links.value[k] # FormatLink(
                          Get(TrackerList(case_data)[e], "resourceKey", PyStr("")).value,
                          Get(TrackerList(case_data)[e], "resourceURL", PyStr("")).value)
        /\ jira_links = extract_jira_links(OnlyEligible(case_data))

\* the call on [Jira AB-1, Other Z, Jira AB-2]
Wit_C3_ScenarioB ==
    /\ pc = "returned_extract_jira_links"
    /\ case_data = ScenarioB
    /\ jira_links.value = <<PyStr("[AB-1|http://x]"), PyStr("[AB-2|http://z]"),
                            PyStr("None")>>

(***************************************************************************)
(* Properties of extract_fields (checked under SpecFields)                 *)
(***************************************************************************)
\* position of the first occurrence of a name in a list
FirstIndex(list, name) ==
    CHOOSE k \in 1..Len(list) :
        list[k] = name /\ \A j \in 1..(k - 1) : list[j] # name

\* C4: the row returned by extract_fields holds every requested column name
\* exactly once and no other key, and its keys stand in the requested order
\* (the order of first request when a name is requested twice); for a list
\* without repetition the keys of the row are the list itself.
Thm_C4_RowKeysAreColumns ==
    pc = "returned_extract_fields" =>
        /\ \A c \in 1..Len(columns) :
              Cardinality({k \in 1..Len(extracted_data) :
                              extracted_data[k].key = columns[c]}) = 1
        /\ \A k \in 1..Len(extracted_data) :
              \E c \in 1..Len(columns) : columns[c] = extracted_data[k].key
        /\ \A j, k \in 1..Len(extracted_data) :
              j < k => FirstIndex(columns, extracted_data[j].key)
                           < FirstIndex(columns, extracted_data[k].key)
        /\ (\A a, b \in 1..Len(columns) : a # b => columns[a] # columns[b])
              => Keys(extracted_data) = columns

\* a call with an unknown and two catalog columns, not in catalog order
Wit_C4_ThreeColumns ==
    /\ pc = "returned_extract_fields"
    /\ columns = <<"Jira-1", "Bogus", "Status">>
    /\ Keys(extracted_data) = <<"Jira-1", "Bogus", "Status">>

(***************************************************************************)
(* Properties of the batch loop of main (checked under Spec)               *)
(***************************************************************************)
TokenOk == Truthy(BEARER_TOKEN) /\ BEARER_TOKEN # PyStr("None")

\* the loop of main ran over all of case_numbers and main went on
LoopEnded ==
    \/ pc \in {"write", "done"}
    \/ pc = "loop" /\ i = Len(case_numbers)
    \/ pc = "exit" /\ env.input = "ok" /\ env.credentials = "imported" /\ TokenOk

\* identifiers whose processing is complete
Processed == IF pc \in {"fetched", "traceback"} THEN i - 1 ELSE i

\* the fetch ended in 401, 404, another non-200 status or a network failure
IsError(response) == response.kind = "network" \/ response.status_code # 200

\* C1: after k identifiers have been processed, whatever the servers answered
\* (200, 401, 404, another status, network failure), len(cases_data) +
\* len(failed_cases) = k; when the loop has ended the sum is len(case_numbers).
Thm_C1_RowsPlusFailures ==
    /\ Len(cases_data) + Len(failed_cases) = Processed
    /\ LoopEnded => Len(cases_data) + Len(failed_cases) = Len(case_numbers)

\* a finished run over three identifiers with a row, a 401 and a network failure
Wit_C1_MixedRun ==
    /\ pc = "done"
    /\ Len(case_numbers) = 3
    /\ Len(cases_data) = 1
    /\ Len(failed_cases) = 2
    /\ \E k \in 1..3 : outcomes[k].kind = "network"
    /\ \E k \in 1..3 : outcomes[k].kind = "http" /\ outcomes[k].status_code = 401

\* the value the claim gives to a requested column of a record
ClaimedValue(record, column) ==
    IF column \notin CatalogColumns THEN PyStr("N/A")
    ELSE IF FIELD_MAPPINGS(column, record).raised THEN PyStr("ERROR")
    ELSE FIELD_MAPPINGS(column, record).value

\* C5: in fetch_cases_config.py a requested column outside the catalog gets
\* "N/A", a catalog column whose function raises gets "ERROR", every other
\* requested column gets its normal value, the row is appended, and no
\* exception leaves the extractor: the loop goes on to the throttle.
Thm_C5_PlaceholdersNotFatal ==
    script = "config" =>
        /\ pc # "traceback"
        /\ (pc = "throttle" /\ Truthy(case_data)) =>
              /\ cases_data # <<>>
              /\ cases_data[Len(cases_data)] = extracted_data
              /\ \A c \in 1..Len(columns) :
                    Item(extracted_data, columns[c]) = ClaimedValue(case_data, columns[c])

\* the first record made 'Jira-1' raise and 'Bogus' is unknown; its row holds
\* the two placeholders and a normal value, and the second identifier was
\* processed after it
Wit_C5_ErrorThenNext ==
    /\ script = "config"
    /\ pc = "throttle"
    /\ i = 2
    /\ Len(cases_data) = 2
    /\ columns = <<"Case Number", "Status", "Jira-1", "Bogus">>
    /\ outcomes[1].json = PyDict([caseNumber |-> PyStr("444"), externalTrackers |-> PyNone])
    /\ Item(cases_data[1], "Jira-1") = PyStr("ERROR")
    /\ Item(cases_data[1], "Bogus") = PyStr("N/A")
    /\ Item(cases_data[1], "Case Number") = PyStr("444")

\* C6 (as claimed): an identifier whose fetch returned HTTP 200 with a parsed
\* body, whatever the body, gets one row appended and is not added to the
\* failure list.
Claim_C6_Status200IsSuccess ==
    [][(pc = "fetched" /\ ~IsError(outcomes[i])) =>
           /\ Len(cases_data') = Len(cases_data) + 1
           /\ failed_cases' = failed_cases]_vars

\* the identifiers at the positions whose answer satisfies the test
RECURSIVE IdsWhere(_, _, _)
IdsWhere(ids, answers, errors) ==
    IF ids = <<>> \/ answers = <<>> THEN <<>>
    ELSE IF IsError(Head(answers)) = errors
         THEN <<Head(ids)>> \o IdsWhere(Tail(ids), Tail(answers), errors)
         ELSE IdsWhere(Tail(ids), Tail(answers), errors)

\* C7 (as claimed): at the end of a run the failure list is the subsequence
\* of the input identifiers whose fetch ended in 401, 404, another non-200
\* status or a network failure, and the rows are those of the subsequence of
\* identifiers whose fetch ended without such an error, in input order.
Claim_C7_RowsAndFailuresPartition ==
    LoopEnded =>
        /\ failed_cases = IdsWhere(case_numbers, outcomes, TRUE)
        /\ Len(cases_data) = Len(IdsWhere(case_numbers, outcomes, FALSE))
        /\ LET ok == SelectSeq(outcomes, LAMBDA r : ~IsError(r))
           IN \A k \in 1..Len(cases_data) :
                  k <= Len(ok) =>
                      cases_data[k] = ExtractRow(script, ok[k].json, columns).value

\* C8 (as claimed): the exit status is non-zero when the credential is absent
\* or the placeholder, when the input cannot be read, when zero cases
\* succeeded, or when the output cannot be written; it is zero in every other
\* run, also when some identifiers failed.
Claim_C8_ExitStatus ==
    pc \in {"exit", "traceback", "done"} =>
        (exit_code # 0 <=>
            \/ env.credentials = "missing" \/ ~TokenOk
            \/ env.argv = "absent" \/ env.input \notin {"ok", "unread"}
            \/ cases_data = <<>>
            \/ env.output = "failed")

\* the events of a run: fetch k, processed k, and a sleep after every
\* identifier but the last
ExpectedEvent(k) ==
    CASE k % 3 = 1 -> [e |-> "fetch", n |-> (k + 2) \div 3]
      [] k % 3 = 2 -> [e |-> "processed", n |-> (k + 1) \div 3]
      [] k % 3 = 0 -> [e |-> "sleep", n |-> k \div 3]

Sleeps == Len(SelectSeq(events, LAMBDA ev : ev.e = "sleep"))

\* C10: the pause happens once between two consecutive fetches, after the
\* identifier has been processed (row or failure) and before the next fetch,
\* and never after the last identifier: max(0, n - 1) pauses in a run over
\* n identifiers.
Thm_C10_PauseBetweenFetches ==
    /\ \A k \in 1..Len(events) : events[k] = ExpectedEvent(k)
    /\ pc \in {"fetched", "throttle", "traceback"} => Sleeps = i - 1
    /\ (pc = "loop" /\ i < Len(case_numbers)) => Sleeps = i
    /\ LoopEnded =>
          Sleeps = IF Len(case_numbers) = 0 THEN 0 ELSE Len(case_numbers) - 1

\* a finished run over three identifiers, the second of which failed
Wit_C10_TwoPauses ==
    /\ LoopEnded
    /\ Len(case_numbers) = 3
    /\ IsError(outcomes[2])
    /\ ~IsError(outcomes[1])
    /\ Sleeps = 2
    /\ events[Len(events)] = [e |-> "processed", n |-> 3]

(***************************************************************************)
(* Properties of the destination file (checked under SpecWriter)           *)
(***************************************************************************)
\* C9: while no identifier has succeeded (an empty list included) the
\* destination is neither opened nor written, and write_to_csv called with no
\* row returns without creating or changing the destination.
Thm_C9_NoRowsNoFile ==
    [][cases_data' = <<>> => (output_file' = output_file /\ opens' = opens)]_vars

\* write_to_csv has returned from a call with no row; the old file is intact
Wit_C9_EmptyCall ==
    /\ pc = "returned_write_to_csv"
    /\ cases_data = <<>>
    /\ opens = 0
    /\ output_file = OldFile

(***************************************************************************)
(* Malformed tracker data (checked under SpecLinks)                        *)
(***************************************************************************)
AllNone == <<PyStr("None"), PyStr("None"), PyStr("None")>>

\* C11 (as claimed): extract_jira_links never raises, whatever the record
\* holds in its tracker field (absent, empty, null, not a list, entries that
\* are not mappings or lack system, key or URL), and tracker data that is
\* missing or malformed gives "None", "None", "None".
Claim_C11_LinksNeverFail ==
    (pc = "returned_extract_jira_links" /\ case_data.kind = "dict") =>
        /\ ~jira_links.raised
        /\ ~WellFormed(case_data) => jira_links.value = AllNone
        /\ "externalTrackers" \notin DOMAIN case_data.map => jira_links.value = AllNone

(***************************************************************************)
(* Early exits of main (checked under Spec)                                *)
(***************************************************************************)
\* no request was sent and the destination was left alone
NothingDone ==
    /\ outcomes = <<>>
    /\ events = <<>>
    /\ opens = 0
    /\ output_file \in {NoFile, OldFile}
    /\ cases_data = <<>>

\* C12: when the bearer credential is absent (no credentials module, None or
\* "") or is the placeholder "None", the run never gets to the loop: no fetch
\* is made, the destination is not written, the run cannot end normally, and
\* whenever it has ended its exit status is non-zero.
Thm_C12_NoTokenNoFetch ==
    (env.credentials = "missing"
        \/ (env.credentials = "imported" /\ BEARER_TOKEN.kind = "none")
        \/ (env.credentials = "imported" /\ BEARER_TOKEN.kind = "str"
               /\ BEARER_TOKEN.s \in {"", "None"})) =>
        /\ NothingDone
        /\ pc \in {"args", "load_config", "check_token", "exit"}
        /\ pc = "exit" => exit_code # 0

\* fetch_cases_config.py stopped at the token test with the placeholder
\* token, the configuration and its identifiers already loaded
Wit_C12_PlaceholderExit ==
    /\ script = "config"
    /\ pc = "exit"
    /\ exit_code = 1
    /\ BEARER_TOKEN = PyStr("None")
    /\ env.input = "ok"
    /\ Len(case_numbers) = 2
    /\ outcomes = <<>>

\* C13: when the configuration file is missing, is not valid JSON, or is a
\* document without 'cases' or without 'columns', the run has stopped in the
\* very step that read it, with a non-zero exit status, no fetch made and the
\* destination not written.
Thm_C13_BadConfigAborts ==
    (script = "config"
        /\ \/ env.input \in {"missing", "invalid_json"}
           \/ env.input # "unread" /\ ~({"cases", "columns"} \subseteq env.config)) =>
        /\ pc = "exit"
        /\ exit_code # 0
        /\ NothingDone
        /\ case_numbers = <<>>

\* the run stopped on a document that has 'columns' but no 'cases'
Wit_C13_NoCases ==
    /\ script = "config"
    /\ pc = "exit"
    /\ exit_code = 1
    /\ env.input = "no_key"
    /\ env.config = {"columns"}
    /\ TokenOk

(***************************************************************************)
(* Content of the written file (checked under SpecWriter)                  *)
(***************************************************************************)
\* the text the file shows for a value
CellText(v) ==
    CASE v.kind = "str" -> v.s
      [] v.kind = "none" -> ""
      [] v.kind = "bool" -> IF v.b THEN "True" ELSE "False"

\* write_to_csv has returned normally
WriteReturned == pc \in {"returned_write_to_csv", "done"}

\* C14: after write_to_csv has returned from a call with a non-empty row
\* list, the first line of the file is the requested column names in the
\* requested order, and line r + 1 holds the values of row r, one cell per
\* requested column, in that order; there is no other line.
Thm_C14_HeaderThenRows ==
    (WriteReturned /\ cases_data # <<>>) =>
        /\ output_file.exists
        /\ Len(output_file.lines) = Len(cases_data) + 1
        /\ output_file.lines[1] = Fieldnames
        /\ \A r \in 1..Len(cases_data) :
              /\ Len(output_file.lines[r + 1]) = Len(Fieldnames)
              /\ \A c \in 1..Len(Fieldnames) :
                    output_file.lines[r + 1][c] =
                        CellText(Item(cases_data[r], Fieldnames[c]))

\* fetch_cases_config.py finished a run with two rows and three columns
Wit_C14_TwoRowsWritten ==
    /\ script = "config"
    /\ pc = "done"
    /\ columns = <<"Jira-2", "Is Closed", "Jira-2">>
    /\ Len(cases_data) = 2
    /\ Len(output_file.lines) = 3
    /\ output_file.lines[1] = columns
    /\ output_file.lines[2] # output_file.lines[3]

(***************************************************************************)
(* Properties of read_case_numbers (checked under SpecRead)                *)
(***************************************************************************)
IsSpace(c) == c \in {" ", "\t", "\n", "\r"}

\* blank: empty, or nothing but whitespace
Blank(line) == \A k \in 1..Len(line) : IsSpace(line[k])

\* the line between its first and its last character that is not whitespace
Trimmed(line) ==
    IF Blank(line) THEN <<>>
    ELSE LET first == CHOOSE k \in 1..Len(line) :
                          ~IsSpace(line[k]) /\ \A j \in 1..(k - 1) : IsSpace(line[j])
             last == CHOOSE k \in 1..Len(line) :
                         ~IsSpace(line[k]) /\ \A j \in (k + 1)..Len(line) : IsSpace(line[j])
         IN SubSeq(line, first, last)

TrimmedAll(kept) == [k \in 1..Len(kept) |-> Trimmed(kept[k])]

\* C15 (as claimed): read_case_numbers returns the identifiers in file order,
\* ignoring blank lines and lines starting with '#'; every other line
\* contributes exactly one identifier.
Claim_C15_HashAtLineStart ==
    pc = "returned_read_case_numbers" =>
        case_numbers = TrimmedAll(SelectSeq(input_lines,
                           LAMBDA l : ~Blank(l) /\ l[1] # "#"))

\* C15 (amended): read_case_numbers returns, in file order, the text of each
\* line without its surrounding whitespace, ignoring the lines that are blank
\* and the lines whose first character that is not whitespace is '#'; every
\* other line contributes exactly one identifier, an ignored line none.
Thm_C15_HashAfterStrip ==
    pc = "returned_read_case_numbers" =>
        case_numbers = TrimmedAll(SelectSeq(input_lines,
                           LAMBDA l : ~Blank(l) /\ Trimmed(l)[1] # "#"))

\* a file with a padded identifier, an indented comment and a bare identifier
Wit_C15_IndentedComment ==
    /\ pc = "returned_read_case_numbers"
    /\ input_lines = <<<<" ", "2", "2", "2", " ", "\n">>, <<" ", "#", "1", "\n">>,
                       <<"1", "1", "1", "\n">>>>
    /\ case_numbers = <<<<"2", "2", "2">>, <<"1", "1", "1">>>>

(***************************************************************************)
(* The life of an identifier (checked under Spec)                          *)
(***************************************************************************)
Fetches == SelectSeq(events, LAMBDA ev : ev.e = "fetch")

Happened(e, n) == \E k \in 1..Len(events) : events[k] = [e |-> e, n |-> n]

\* Pending, Fetching, or Extracted / Failed (Settled) by the events so far
StateOf(n) ==
    IF Happened("processed", n) THEN "Settled"
    ELSE IF Happened("fetch", n) THEN "Fetching"
    ELSE "Pending"

Terminated == pc \in {"done", "exit", "traceback"}

\* C16 (as claimed): every identifier is fetched exactly once, one at a time
\* and in input order (the k-th fetch is of the k-th identifier, and the one
\* before it is settled by then); a failed identifier does not stop the loop;
\* a batch that started ends with every identifier Extracted or Failed.
Claim_C16_EveryIdentifierSettled ==
    /\ \A k \in 1..Len(Fetches) : Fetches[k].n = k
    /\ \A n \in 1..Len(case_numbers) :
          /\ StateOf(n) # "Pending" => \A j \in 1..(n - 1) : StateOf(j) = "Settled"
          /\ (Terminated /\ events # <<>>) => StateOf(n) = "Settled"
    /\ (Terminated /\ events # <<>>) =>
          Len(cases_data) + Len(failed_cases) = Len(case_numbers)

(***************************************************************************)
(* The 'All Jira Links' column (checked under SpecFields)                  *)
(***************************************************************************)
\* the texts of a list of links, one after the other with ", " in between
RECURSIVE Concatenated(_)
Concatenated(links) ==
    IF links = <<>> THEN ""
    ELSE IF Len(links) = 1 THEN links[1].s
    ELSE links[1].s \o ", " \o Concatenated(Tail(links))

AllLinkTexts(record) ==
    [k \in 1..Len(EligibleEntries(record)) |-> LinkText(EligibleEntries(record)[k])]

HasSummary(record) ==
    /\ record.kind = "dict"
    /\ "summary" \in DOMAIN record.map
    /\ record.map.summary.kind = "str"
    /\ record.map.summary.s # ""

====
